---------------------------- MODULE Spec2Model ----------------------------
(***************************************************************************)
(* The etl_pipeline DAG of Airflow_project.ipynb: the three callables      *)
(* extract_data, transform_data and load_data, the files and the SQLite    *)
(* database they share, and the scheduling declaration that chains them.   *)
(*                                                                         *)
(* A value that may be missing (JSON null, pandas NaN, SQL NULL) is the    *)
(* empty tuple; a present value v is the one-element tuple <<v>>.          *)
(***************************************************************************)
EXTENDS Integers, Sequences, FiniteSets

VARIABLES
    source_file,    \* athlete_events_2006_2016.jsonl: NoFile or Some(sequence of records)
    extracted_csv,  \* extracted_data.csv: NoFile or Some([header, rows])
    medal_csv,      \* transformed_medal_counts.csv
    country_csv,    \* transformed_country_counts.csv
    db,             \* countries_medals.db: table name -> NoTable or Some(table)
    connection,     \* the sqlite3 connection of the latest load_data call
    state,          \* task id -> task-instance state in the current DAG run
    tries,          \* task id -> attempts made in the current DAG run
    error,          \* task id -> exception raised by the task's latest attempt
    run_input,      \* the source file read by the latest extract_data call
    last_run        \* source file and database at the end of the latest run in
                    \* which all three stages were executed

vars == <<source_file, extracted_csv, medal_csv, country_csv, db, connection,
          state, tries, error, run_input, last_run>>

-----------------------------------------------------------------------------
(* Values *)

Null == <<>>

Some(v) == <<v>>

IsNa(c) == c = <<>>

\* A file or a table that does not exist
NoFile == Null

NoTable == Null

NoError == "none"

\* Number of records in a file read by transform_data on its own
MaxRecords == 2

Years == {2012, 2016}

Seasons == {"Summer", "Winter"}

NOCs == {"GBR", "USA"}

Medals == {"Gold", "Silver"}

\* One event record, restricted to the four attributes the pipeline uses
Records ==
    [year : {Some(y) : y \in Years}, season : {Some(s) : s \in Seasons},
     noc : {Some(n) : n \in NOCs}, medal : {Some(m) : m \in Medals} \cup {Null}]

Rec(y, s, n, m) == [year |-> Some(y), season |-> Some(s), noc |-> Some(n), medal |-> m]

RecordColumns == <<"year", "season", "noc", "medal">>

SeqsUpTo(S, n) == UNION {[1..k -> S] : k \in 0..n}

Range(s) == {s[i] : i \in DOMAIN s}

-----------------------------------------------------------------------------
(* Text of the CSV files *)

Digits == <<"0", "1", "2", "3", "4", "5", "6", "7", "8", "9">>

\* str(n) for the integers the files hold: a count or a year
IntText(n) ==
    CASE n \in 0..9 -> Digits[n + 1]
      [] n = 2012 -> "2012"
      [] n = 2016 -> "2016"

IntDomain == (0..9) \cup Years

IntTexts == {IntText(n) : n \in IntDomain}

ParseInt(t) == CHOOSE n \in IntDomain : IntText(n) = t

\* pandas' default na_values (those that can occur here)
NaValues == {"", "NA", "N/A", "NULL", "NaN", "None", "null", "nan", "n/a", "<NA>", "#N/A"}

IntColumns == {"year", "Medal_Count", "Countries_with_Medals"}

\* A DataFrame is [columns : sequence of names, rows : sequence of [name -> cell]]

\* DataFrame.to_csv(path, index=False): a header line, then one line per row;
\* a missing value is written as the empty field
CellText(col, c) ==
    IF IsNa(c) THEN "" ELSE IF col \in IntColumns THEN IntText(c[1]) ELSE c[1]

to_csv(df) ==
    [header |-> df.columns,
     rows |-> [i \in DOMAIN df.rows |->
                 [j \in DOMAIN df.columns |-> CellText(df.columns[j], df.rows[i][df.columns[j]])]]]

\* pd.read_csv(path): fields in na_values become NaN, a column whose other
\* fields are all integers is parsed as numbers
ColumnIsInt(csv, j) ==
    \A i \in DOMAIN csv.rows : csv.rows[i][j] \in NaValues \cup IntTexts

ParseCell(csv, j, t) ==
    IF t \in NaValues THEN Null
    ELSE IF ColumnIsInt(csv, j) THEN Some(ParseInt(t)) ELSE Some(t)

ColumnIndex(csv, name) == CHOOSE j \in DOMAIN csv.header : csv.header[j] = name

read_csv(csv) ==
    [columns |-> csv.header,
     rows |-> [i \in DOMAIN csv.rows |->
                 [name \in Range(csv.header) |->
                     ParseCell(csv, ColumnIndex(csv, name), csv.rows[i][ColumnIndex(csv, name)])]]]

\* pd.read_json(path, lines=True): one row per line, the columns are the keys
read_json(lines) ==
    [columns |-> IF lines = <<>> THEN <<>> ELSE RecordColumns, rows |-> lines]

-----------------------------------------------------------------------------
(* pandas operations used by transform_data *)

HasColumns(df, cols) == Range(cols) \subseteq Range(df.columns)

\* df[cols]
Project(df, cols) ==
    [columns |-> cols,
     rows |-> [i \in DOMAIN df.rows |-> [c \in Range(cols) |-> df.rows[i][c]]]]

\* df.dropna(subset=[col])
dropna(df, col) ==
    LET Keep(r) == ~IsNa(r[col])
    IN  [columns |-> df.columns, rows |-> SelectSeq(df.rows, Keep)]

\* The group key of a row: its values in the `by` columns
KeyOf(r, by) == [j \in DOMAIN by |-> r[by[j]][1]]

\* groupby drops the rows whose key holds a NaN (dropna=True)
HasKey(r, by) == \A j \in DOMAIN by : ~IsNa(r[by[j]])

GroupKeys(df, by) == {KeyOf(df.rows[i], by) : i \in {k \in DOMAIN df.rows : HasKey(df.rows[k], by)}}

GroupRows(df, by, key) ==
    {i \in DOMAIN df.rows : HasKey(df.rows[i], by) /\ KeyOf(df.rows[i], by) = key}

\* Order of the strings that occur (code-point order)
StrOrder == <<"GBR", "Summer", "USA", "Winter">>

StrRank(s) == CHOOSE i \in DOMAIN StrOrder : StrOrder[i] = s

\* Keys start with the year (a number); the other parts are strings
PartLess(j, x, y) == IF j = 1 THEN x < y ELSE StrRank(x) < StrRank(y)

KeyLess(a, b) ==
    \E j \in DOMAIN a : (\A k \in 1..(j - 1) : a[k] = b[k]) /\ PartLess(j, a[j], b[j])

\* groupby(sort=True): the groups come out in key order
RECURSIVE SortKeys(_)
SortKeys(keys) ==
    IF keys = {} THEN <<>>
    ELSE LET least == CHOOSE a \in keys : \A b \in keys \ {a} : KeyLess(a, b)
         IN  <<least>> \o SortKeys(keys \ {least})

\* One output row of reset_index(name=...): the key columns, then the value
GroupRow(by, key, name, value) ==
    [c \in Range(by) \cup {name} |->
        IF c = name THEN Some(value)
        ELSE Some(key[CHOOSE j \in DOMAIN by : by[j] = c])]

\* One output row per input row: the rows are not grouped
groupby_size_ungrouped(df, by, name) ==
    [columns |-> by \o <<name>>,
     rows |-> [i \in DOMAIN df.rows |-> GroupRow(by, KeyOf(df.rows[i], by), name, 1)]]

\* df.groupby(by).size().reset_index(name=name)
groupby_size(df, by, name) ==
    LET keys == SortKeys(GroupKeys(df, by))
    IN  [columns |-> by \o <<name>>,
         rows |-> [g \in DOMAIN keys |->
                     GroupRow(by, keys[g], name, Cardinality(GroupRows(df, by, keys[g])))]]

\* count() in place of nunique(): the rows of the group, not its distinct values
groupby_nunique_counting_rows(df, by, col, name) ==
    LET keys == SortKeys(GroupKeys(df, by))
    IN  [columns |-> by \o <<name>>,
         rows |-> [g \in DOMAIN keys |->
                     GroupRow(by, keys[g], name, Cardinality(GroupRows(df, by, keys[g])))]]

\* df.groupby(by)[col].nunique().reset_index(name=name); nunique skips NaN
groupby_nunique(df, by, col, name) ==
    LET keys == SortKeys(GroupKeys(df, by))
        Values(key) == {df.rows[i][col] : i \in GroupRows(df, by, key)} \ {Null}
    IN  [columns |-> by \o <<name>>,
         rows |-> [g \in DOMAIN keys |->
                     GroupRow(by, keys[g], name, Cardinality(Values(keys[g])))]]

-----------------------------------------------------------------------------
(* The three callables *)

\* extract_data(): read the JSON-lines file, write it out as CSV
extract_data(file) ==
    IF file = NoFile
    THEN [error |-> "FileNotFoundError", extracted |-> NoFile]
    ELSE [error |-> NoError, extracted |-> Some(to_csv(read_json(file[1])))]

\* transform_data(): the two aggregates of the medal-bearing rows.  A file
\* extracted from no records has no columns, and selecting the four columns
\* raises
transform_data(extracted) ==
    IF extracted = NoFile
    THEN [error |-> "FileNotFoundError", medal_counts |-> NoFile, country_counts |-> NoFile]
    ELSE LET df == read_csv(extracted[1])
         IN  IF ~HasColumns(df, RecordColumns)
             THEN [error |-> "KeyError", medal_counts |-> NoFile, country_counts |-> NoFile]
             ELSE LET df_filtered == dropna(Project(df, RecordColumns), "medal")
                      medal_counts ==
                          groupby_size(df_filtered, <<"year", "season", "noc">>, "Medal_Count")
                      country_counts ==
                          groupby_nunique(df_filtered, <<"year", "season">>, "noc",
                                          "Countries_with_Medals")
                  IN  [error |-> NoError,
                       medal_counts |-> Some(to_csv(medal_counts)),
                       country_counts |-> Some(to_csv(country_counts))]

-----------------------------------------------------------------------------
(* SQLite, as load_data drives it.  db holds the committed contents: a DDL  *)
(* statement runs outside any transaction and pandas commits its inserts,   *)
(* so every statement that has returned is durable.                         *)

TableNames == {"MedalCounts", "CountryCounts"}

\* CREATE TABLE IF NOT EXISTS name (columns..., PRIMARY KEY (pk))
create_table_if_not_exists(store, name, columns, pk) ==
    IF store[name] # NoTable THEN store
    ELSE [store EXCEPT ![name] = Some([columns |-> columns, pk |-> pk, rows |-> <<>>])]

\* if_exists='append': the rows are added to the table as it is
to_sql_append(store, name, df, insert_fails) ==
    IF insert_fails THEN [db |-> store, error |-> "OperationalError"]
    ELSE [db |-> [store EXCEPT ![name] = Some([@[1] EXCEPT !.rows = @ \o df.rows])],
          error |-> NoError]

\* df.to_sql(name, connection, if_exists='replace', index=False): drop the
\* table, create it anew from the frame's columns (no key is declared), insert
\* the rows in one transaction; a failed insert is rolled back
to_sql(store, name, df, insert_fails) ==
    LET created == [columns |-> df.columns, pk |-> <<>>, rows |-> <<>>]
    IN  IF insert_fails
        THEN [db |-> [store EXCEPT ![name] = Some(created)], error |-> "OperationalError"]
        ELSE [db |-> [store EXCEPT ![name] = Some([created EXCEPT !.rows = df.rows])],
              error |-> NoError]

\* Names bound in load_data when line 119 runs, and the notebook's globals
LoadLocals == {"medal_counts", "country_counts", "connection", "create_medal_table_query"}

NotebookGlobals ==
    {"pd", "gzip", "create_engine", "sqlite3", "DAG", "PythonOperator", "datetime",
     "timedelta", "extract_data", "transform_data", "load_data", "default_args", "dag",
     "extract_task", "transform_task", "load_task"}

NameDefined(name) == name \in LoadLocals \cup NotebookGlobals

\* Where the store may refuse a statement of load_data
StoreFaults == {"none", "connect", "execute", "insert"}

\* load_data(): the database, the connection and the exception it ends with
load_data(store, medal, country, fault) ==
    IF medal = NoFile \/ country = NoFile
    THEN [db |-> store, connection |-> "none", error |-> "FileNotFoundError"]
    ELSE IF fault = "connect"
    THEN [db |-> store, connection |-> "none", error |-> "OperationalError"]
    ELSE IF fault = "execute"
    THEN [db |-> store, connection |-> "open", error |-> "OperationalError"]
    ELSE LET medal_counts == read_csv(medal[1])
             country_counts == read_csv(country[1])
             db1 == create_table_if_not_exists(store, "MedalCounts",
                        <<"year", "season", "noc", "Medal_Count">>, <<"year", "season", "noc">>)
             r2 == to_sql(db1, "MedalCounts", medal_counts, fault = "insert")
         IN  IF r2.error # NoError
             THEN [db |-> r2.db, connection |-> "open", error |-> r2.error]
             ELSE IF ~NameDefined("create_country_table_query")
             THEN [db |-> r2.db, connection |-> "open", error |-> "NameError"]
             ELSE LET db3 == create_table_if_not_exists(r2.db, "CountryCounts",
                                 <<"year", "season", "Countries_with_Medals">>,
                                 <<"year", "season">>)
                      r4 == to_sql(db3, "CountryCounts", country_counts, FALSE)
                  IN  [db |-> r4.db, connection |-> "closed", error |-> NoError]

-----------------------------------------------------------------------------
(* The scheduling declaration.  DAG runs are taken one after the other and    *)
(* each task attempt is one step; the five-minute retry_delay only spaces    *)
(* the attempts and is not represented.                                      *)

Tasks == {"extract_data", "transform_data", "load_data"}

\* A chain that lets load_data follow extract_data directly
ChainSkippingTransform ==
    {<<"extract_data", "transform_data">>, <<"extract_data", "load_data">>}

\* extract_task >> transform_task >> load_task
Chain == {<<"extract_data", "transform_data">>, <<"transform_data", "load_data">>}

Upstream(t) == {u \in Tasks : <<u, t>> \in Chain}

\* One retry too many
\* Two retries instead of one
retries_twice == 1 + 1

\* default_args['retries']
retries == 1

Finished == {"success", "failed", "upstream_failed"}

\* The default trigger rule (all_success) and the states a task can start from
CanStart(t) ==
    /\ state[t] \in {"none", "up_for_retry"}
    /\ \A u \in Upstream(t) : state[u] = "success"

\* The task-instance state after an attempt that ended with exception e
AfterAttempt(t, e) ==
    IF e = NoError THEN "success"
    ELSE IF tries[t] + 1 <= retries THEN "up_for_retry"
    ELSE "failed"

Attempt(t, e) ==
    /\ CanStart(t)
    /\ tries' = [tries EXCEPT ![t] = @ + 1]
    /\ error' = [error EXCEPT ![t] = e]
    /\ state' = [state EXCEPT ![t] = AfterAttempt(t, e)]

\* One attempt of extract_task
RunExtract ==
    LET r == extract_data(source_file)
    IN  /\ Attempt("extract_data", r.error)
        /\ extracted_csv' = IF r.error = NoError THEN r.extracted ELSE extracted_csv
        /\ run_input' = source_file
        /\ UNCHANGED <<source_file, medal_csv, country_csv, db, connection, last_run>>

\* One attempt of transform_task
RunTransform ==
    LET r == transform_data(extracted_csv)
    IN  /\ Attempt("transform_data", r.error)
        /\ medal_csv' = IF r.error = NoError THEN r.medal_counts ELSE medal_csv
        /\ country_csv' = IF r.error = NoError THEN r.country_counts ELSE country_csv
        /\ UNCHANGED <<source_file, extracted_csv, db, connection, run_input, last_run>>

\* One attempt of load_task
RunLoad ==
    \E fault \in StoreFaults :
        LET r == load_data(db, medal_csv, country_csv, fault)
        IN  /\ Attempt("load_data", r.error)
            /\ db' = r.db
            /\ connection' = r.connection
            /\ UNCHANGED <<source_file, extracted_csv, medal_csv, country_csv, run_input,
                           last_run>>

\* The scheduler gives up on a task whose upstream task did not succeed
MarkUpstreamFailed ==
    \E t \in Tasks :
        /\ state[t] = "none"
        /\ \E u \in Upstream(t) : state[u] \in {"failed", "upstream_failed"}
        /\ state' = [state EXCEPT ![t] = "upstream_failed"]
        /\ UNCHANGED <<source_file, extracted_csv, medal_csv, country_csv, db, connection,
                       tries, error, run_input, last_run>>

\* All three stages were executed and the store refused nothing
RanThrough ==
    /\ state["extract_data"] = "success"
    /\ state["transform_data"] = "success"
    /\ state["load_data"] \in {"success", "failed"}
    /\ error["load_data"] \in {NoError, "NameError"}

NoRun == Null

\* schedule_interval=timedelta(days=1): the next day's DAG run
NextRun ==
    /\ \A t \in Tasks : state[t] \in Finished
    /\ state' = [t \in Tasks |-> "none"]
    /\ tries' = [t \in Tasks |-> 0]
    /\ error' = [t \in Tasks |-> NoError]
    /\ last_run' = IF RanThrough THEN Some([input |-> run_input, db |-> db]) ELSE last_run
    /\ UNCHANGED <<source_file, extracted_csv, medal_csv, country_csv, db, connection,
                   run_input>>

\* Source files the pipeline is run on: missing, empty, no medal at all, the
\* specification's scenario, and medals in two seasons
SourceFiles ==
    {NoFile,
     Some(<<>>),
     Some(<<Rec(2012, "Summer", "GBR", Null)>>),
     Some(<<Rec(2012, "Summer", "USA", Some("Gold")), Rec(2012, "Summer", "USA", Some("Silver")),
            Rec(2012, "Summer", "GBR", Null)>>),
     Some(<<Rec(2016, "Winter", "USA", Some("Gold")), Rec(2012, "Summer", "USA", Some("Gold")),
            Rec(2012, "Summer", "GBR", Some("Silver"))>>)}

\* The environment replaces, or removes, the source file; it may do so at any time
ReplaceSource ==
    /\ \E f \in SourceFiles : source_file' = f /\ f # source_file
    /\ UNCHANGED <<extracted_csv, medal_csv, country_csv, db, connection, state, tries,
                   error, run_input, last_run>>

InitRest ==
    /\ extracted_csv = NoFile
    /\ medal_csv = NoFile
    /\ country_csv = NoFile
    /\ db = [n \in TableNames |-> NoTable]
    /\ connection = "none"
    /\ state = [t \in Tasks |-> "none"]
    /\ tries = [t \in Tasks |-> 0]
    /\ error = [t \in Tasks |-> NoError]
    /\ run_input = NoFile
    /\ last_run = NoRun

Init == source_file \in SourceFiles /\ InitRest

Next == RunExtract \/ RunTransform \/ RunLoad \/ MarkUpstreamFailed \/ NextRun \/ ReplaceSource

Spec == Init /\ [][Next]_vars

\* extract_task and transform_task alone, on every file of up to MaxRecords records
InitStages == source_file \in {Some(f) : f \in SeqsUpTo(Records, MaxRecords)} /\ InitRest

NextStages == RunExtract \/ RunTransform

SpecStages == InitStages /\ [][NextStages]_vars

-----------------------------------------------------------------------------
(* Properties *)

AllFinished == \A t \in Tasks : state[t] \in Finished

\* C1: within one DAG run transform_data starts an attempt only when
\* extract_data has succeeded in that run, and load_data starts an attempt
\* only when transform_data has succeeded in that run.
StagesRunInOrder ==
    [][/\ tries'["transform_data"] > tries["transform_data"]
            => state["extract_data"] = "success"
       /\ tries'["load_data"] > tries["load_data"]
            => state["extract_data"] = "success" /\ state["transform_data"] = "success"]_vars

LoadAttempted == tries["load_data"] > 0 /\ state["transform_data"] = "success"

\* C2: no stage is attempted more than twice in a DAG run; a stage whose
\* second attempt fails is marked failed; a stage is marked failed only then;
\* and no stage downstream of a failed stage is ever attempted in that run.
Downstream(t) ==
    CASE t = "extract_data" -> {"transform_data", "load_data"}
      [] t = "transform_data" -> {"load_data"}
      [] t = "load_data" -> {}

FailedAfterOneRetry ==
    \A t \in Tasks :
        /\ tries[t] <= 2
        /\ (tries[t] = 2 /\ error[t] # NoError) => state[t] = "failed"
        /\ state[t] = "failed" => tries[t] = 2 /\ error[t] # NoError
        /\ state[t] = "failed" =>
              \A d \in Downstream(t) : tries[d] = 0 /\ state[d] \in {"none", "upstream_failed"}

TransformFailedTwice ==
    /\ state["transform_data"] = "failed"
    /\ tries["transform_data"] = 2
    /\ state["load_data"] = "upstream_failed"
    /\ tries["load_data"] = 0

\* The rows a table holds, none when the table does not exist
TableRows(name) == IF db[name] = NoTable THEN <<>> ELSE db[name][1].rows

\* C3: a load_data call that finds both aggregate files and meets no store
\* error ends without an exception, with both tables present and holding the
\* current aggregates, and with its connection closed.
LoadRunsToCompletion ==
    (tries["load_data"] > 0 /\ error["load_data"] \notin {"FileNotFoundError", "OperationalError"})
        => /\ error["load_data"] = NoError
           /\ connection = "closed"
           /\ db["MedalCounts"] # NoTable
           /\ db["CountryCounts"] # NoTable
           /\ TableRows("MedalCounts") = read_csv(medal_csv[1]).rows
           /\ TableRows("CountryCounts") = read_csv(country_csv[1]).rows

\* C4: a load_data attempt that ends with an exception leaves both tables as
\* they were before the attempt.
FailedLoadLeavesTables ==
    [][(tries'["load_data"] = tries["load_data"] + 1 /\ error'["load_data"] # NoError)
          => db' = db]_vars

\* C5: whenever load_data has returned or raised, the connection it opened
\* is closed.
ConnectionReleased == connection # "open"

\* C6: a DAG run that executes all three stages on the same source file as
\* the previous such run ends with both tables exactly as that run left them.
PipelineIdempotent ==
    (AllFinished /\ RanThrough /\ last_run # NoRun /\ last_run[1].input = run_input)
        => db = last_run[1].db

RanTwiceOnSameInput ==
    /\ AllFinished
    /\ RanThrough
    /\ last_run # NoRun
    /\ last_run[1].input = run_input
    /\ Len(TableRows("MedalCounts")) >= 2

\* Records of the source file that carry a medal, by key
MedalRecords(recs, y, s, n) ==
    {i \in DOMAIN recs :
        /\ recs[i].year = Some(y)
        /\ recs[i].season = Some(s)
        /\ recs[i].noc = Some(n)
        /\ recs[i].medal # Null}

RowsWithKey(csv, key) ==
    {i \in DOMAIN csv.rows : \A j \in DOMAIN key : csv.rows[i][j] = key[j]}

\* C7: after transform_data succeeds, transformed_medal_counts.csv holds
\* exactly one row for each (year, season, noc) that has a source record with
\* a medal, the row's Medal_Count is the number of those records, and it holds
\* no other row.
MedalCountsExact ==
    state["transform_data"] = "success" =>
        LET recs == source_file[1]
            csv == medal_csv[1]
        IN  /\ csv.header = <<"year", "season", "noc", "Medal_Count">>
            /\ \A y \in Years, s \in Seasons, n \in NOCs :
                  LET medals == Cardinality(MedalRecords(recs, y, s, n))
                      rows == RowsWithKey(csv, <<IntText(y), s, n>>)
                  IN  IF medals = 0 THEN rows = {}
                      ELSE /\ Cardinality(rows) = 1
                           /\ \A i \in rows : csv.rows[i][4] = IntText(medals)
            /\ \A i \in DOMAIN csv.rows :
                  \E y \in Years, s \in Seasons, n \in NOCs :
                      i \in RowsWithKey(csv, <<IntText(y), s, n>>)

MedalAndNoMedalRecord ==
    /\ state["transform_data"] = "success"
    /\ \E i, j \in DOMAIN source_file[1] :
          source_file[1][i].medal = Null /\ source_file[1][j].medal # Null
    /\ Len(medal_csv[1].rows) = 1

\* C8: after transform_data succeeds, transformed_country_counts.csv holds one
\* row for each (year, season) that occurs in transformed_medal_counts.csv,
\* its Countries_with_Medals is the number of distinct noc values of the medal
\* rows of that (year, season), and it holds no other row.
AggregatesConsistent ==
    state["transform_data"] = "success" =>
        LET medal == medal_csv[1]
            country == country_csv[1]
        IN  /\ country.header = <<"year", "season", "Countries_with_Medals">>
            /\ \A y \in Years, s \in Seasons :
                  LET nocs == {medal.rows[i][3] : i \in RowsWithKey(medal, <<IntText(y), s>>)}
                      rows == RowsWithKey(country, <<IntText(y), s>>)
                  IN  IF nocs = {} THEN rows = {}
                      ELSE /\ Cardinality(rows) = 1
                           /\ \A i \in rows : country.rows[i][3] = IntText(Cardinality(nocs))
            /\ \A i \in DOMAIN country.rows :
                  \E y \in Years, s \in Seasons : i \in RowsWithKey(country, <<IntText(y), s>>)

TwoMedalsOneCountry ==
    /\ state["transform_data"] = "success"
    /\ Len(source_file[1]) = 2
    /\ \E i \in DOMAIN medal_csv[1].rows : medal_csv[1].rows[i][4] = "2"
    /\ \E i \in DOMAIN country_csv[1].rows : country_csv[1].rows[i][3] = "1"

\* C9: a DAG run whose source file holds no record with a medal, and which
\* meets no store error, ends with every stage succeeded and with both tables
\* present and empty.
NoMedalsNoError ==
    (/\ AllFinished
     /\ tries["extract_data"] > 0
     /\ run_input # NoFile
     /\ \A i \in DOMAIN run_input[1] : run_input[1][i].medal = Null
     /\ error["load_data"] # "OperationalError")
        => /\ \A t \in Tasks : state[t] = "success"
           /\ db["MedalCounts"] # NoTable /\ TableRows("MedalCounts") = <<>>
           /\ db["CountryCounts"] # NoTable /\ TableRows("CountryCounts") = <<>>

RowKey(r, cols) == [j \in DOMAIN cols |-> r[cols[j]]]

UniqueBy(rows, cols) ==
    \A i, j \in DOMAIN rows : i # j => RowKey(rows[i], cols) # RowKey(rows[j], cols)

\* C10: in every state of the database MedalCounts holds no two rows with the
\* same (year, season, noc) and CountryCounts no two rows with the same
\* (year, season).
KeysUnique ==
    /\ UniqueBy(TableRows("MedalCounts"), <<"year", "season", "noc">>)
    /\ UniqueBy(TableRows("CountryCounts"), <<"year", "season">>)

SeveralRowsLoaded == Len(TableRows("MedalCounts")) >= 3

=============================================================================
